---- MODULE Spec2Model ----
(***************************************************************************)
(* The attachment-description pipeline of open_deep_research/run_agents.py *)
(* (get_image_description, get_document_description,                       *)
(* get_single_file_description, get_zip_description).                      *)
(*                                                                         *)
(* A Python str is a sequence of one-character strings, so that split,     *)
(* replace, concatenation and textwrap.indent are computed character by    *)
(* character as the code computes them.                                    *)
(***************************************************************************)
EXTENDS Naturals, Sequences, FiniteSets, TLC

VARIABLES
    files,        \* the regular files of the filesystem (paths)
    dirs,         \* the directories of the filesystem (paths)
    pc,           \* position of the caller: "idle", or a step of get_zip_description
    op,           \* the function of the last call: "none", "single", "zip"
    file_path,    \* argument file_path of the last call
    question,     \* argument question of the last call
    calls,        \* captioner invocations of the last call, in order
    probes,       \* os.path.exists probes of the last call, in order
    class,        \* branch taken by the last get_single_file_description
    outcome,      \* "none", "running", "ok", or the name of the error raised
    result,       \* the string returned when outcome = "ok"
    folder_path,  \* get_zip_description: the destination directory
    stack,        \* os.walk: the directories still to scan, next first
    pending,      \* os.walk: the file names of the scanned directory still to describe
    root,         \* os.walk: the directory last scanned
    prompt_use_files, \* get_zip_description: the output accumulated so far
    mkdirs,       \* the directories os.makedirs was asked for by the last call
    unpacks,      \* the (archive, destination) pairs unpacked by the last call
    scans,        \* the directory listings os.walk got in the last call, in order
    fragments,    \* the (path, fragment) pairs described by the last call, in order
    prev,         \* what the call before the last one did (NoCall when there is none)
    runs          \* how many calls of get_zip_description were made

fileVars == <<pc, op, file_path, question, calls, probes, class, outcome, result>>

zipVars ==
    <<folder_path, stack, pending, root, prompt_use_files, mkdirs, unpacks, scans,
      fragments, prev, runs>>

vars == <<files, dirs, fileVars, zipVars>>

-----------------------------------------------------------------------------
(* String literals of the source.                                          *)

ImagePromptHead ==
    <<"W","r","i","t","e"," ","a"," ","c","a","p","t","i","o","n"," ","o","f"," ","5"," ","s",
      "e","n","t","e","n","c","e","s"," ","f","o","r"," ","t","h","i","s"," ","i","m","a","g",
      "e","."," ","P","a","y"," ","s","p","e","c","i","a","l"," ","a","t","t","e","n","t","i",
      "o","n"," ","t","o"," ","a","n","y"," ","d","e","t","a","i","l","s"," ","t","h","a","t",
      " ","m","i","g","h","t"," ","b","e"," ","u","s","e","f","u","l"," ","f","o","r"," ","s",
      "o","m","e","o","n","e"," ","a","n","s","w","e","r","i","n","g"," ","t","h","e"," ","f",
      "o","l","l","o","w","i","n","g"," ","q","u","e","s","t","i","o","n",":","\n">>

ImagePromptTail ==
    <<"."," ","B","u","t"," ","d","o"," ","n","o","t"," ","t","r","y"," ","t","o"," ","a","n",
      "s","w","e","r"," ","t","h","e"," ","q","u","e","s","t","i","o","n"," ","d","i","r","e",
      "c","t","l","y","!","\n","D","o"," ","n","o","t"," ","a","d","d"," ","a","n","y"," ","i",
      "n","f","o","r","m","a","t","i","o","n"," ","t","h","a","t"," ","i","s"," ","n","o","t",
      " ","p","r","e","s","e","n","t"," ","i","n"," ","t","h","e"," ","i","m","a","g","e",".">>

DocumentPromptHead ==
    <<"W","r","i","t","e"," ","a"," ","c","a","p","t","i","o","n"," ","o","f"," ","5"," ","s",
      "e","n","t","e","n","c","e","s"," ","f","o","r"," ","t","h","i","s"," ","d","o","c","u",
      "m","e","n","t","."," ","P","a","y"," ","s","p","e","c","i","a","l"," ","a","t","t","e",
      "n","t","i","o","n"," ","t","o"," ","a","n","y"," ","d","e","t","a","i","l","s"," ","t",
      "h","a","t"," ","m","i","g","h","t"," ","b","e"," ","u","s","e","f","u","l"," ","f","o",
      "r"," ","s","o","m","e","o","n","e"," ","a","n","s","w","e","r","i","n","g"," ","t","h",
      "e"," ","f","o","l","l","o","w","i","n","g"," ","q","u","e","s","t","i","o","n",":","\n">>

DocumentPromptTail ==
    <<"."," ","B","u","t"," ","d","o"," ","n","o","t"," ","t","r","y"," ","t","o"," ","a","n",
      "s","w","e","r"," ","t","h","e"," ","q","u","e","s","t","i","o","n"," ","d","i","r","e",
      "c","t","l","y","!","\n","D","o"," ","n","o","t"," ","a","d","d"," ","a","n","y"," ","i",
      "n","f","o","r","m","a","t","i","o","n"," ","t","h","a","t"," ","i","s"," ","n","o","t",
      " ","p","r","e","s","e","n","t"," ","i","n"," ","t","h","e"," ","d","o","c","u","m","e",
      "n","t",".">>

ImageHeader ==
    <<" ","-"," ","A","t","t","a","c","h","e","d"," ","i","m","a","g","e",":"," ">>

ImageCaptionLine ==
    <<"\n"," "," "," "," "," ","-",">"," ","I","m","a","g","e"," ","d","e","s","c","r","i","p",
      "t","i","o","n",":"," ">>

DocumentHeader ==
    <<" ","-"," ","A","t","t","a","c","h","e","d"," ","d","o","c","u","m","e","n","t",":"," ">>

DocumentCaptionLine ==
    <<"\n"," "," "," "," "," ","-",">"," ","F","i","l","e"," ","d","e","s","c","r","i","p","t",
      "i","o","n",":"," ">>

AudioHeader ==
    <<" ","-"," ","A","t","t","a","c","h","e","d"," ","a","u","d","i","o",":"," ">>

OtherHeader ==
    <<" ","-"," ","A","t","t","a","c","h","e","d"," ","f","i","l","e",":"," ">>

IndentPrefix ==
    <<" "," "," "," ">>

ZipSuffix ==
    <<".","z","i","p">>

PngSuffix ==
    <<".","p","n","g">>

-----------------------------------------------------------------------------
(* Python str primitives, computed on character sequences.                 *)

Dot == "."

Sep == "/"

\* the positions of character c in s
Positions(s, c) == {i \in 1..Len(s) : s[i] = c}

Max(S) == CHOOSE x \in S : \A y \in S : y <= x

Min(S) == CHOOSE x \in S : \A y \in S : x <= y

\* s.split(".")[-1]: what follows the last "." (all of s when it has none)
SplitLast(s) ==
    LET P == Positions(s, Dot)
    IN  IF P = {} THEN s ELSE SubSeq(s, Max(P) + 1, Len(s))

\* s.split(".")[0]: what precedes the first "." (all of s when it has none)
SplitFirst(s) ==
    LET P == Positions(s, Dot)
    IN  IF P = {} THEN s ELSE SubSeq(s, 1, Min(P) - 1)

\* s[i:].startswith(t), i counted from 1
StartsAt(s, i, t) ==
    /\ i + Len(t) - 1 <= Len(s)
    /\ SubSeq(s, i, i + Len(t) - 1) = t

\* t in s
Contains(s, t) == \E i \in 1..(Len(s) + 1) : StartsAt(s, i, t)

\* s.replace(old, new) for a non-empty old: every non-overlapping occurrence,
\* scanned from the left
RECURSIVE Replace(_, _, _)
Replace(s, old, new) ==
    IF s = <<>> THEN <<>>
    ELSE IF StartsAt(s, 1, old)
         THEN new \o Replace(SubSeq(s, Len(old) + 1, Len(s)), old, new)
         ELSE <<Head(s)>> \o Replace(Tail(s), old, new)

Whitespace == {" ", "\n", "\t"}

\* text.splitlines(True): the lines of text, each keeping its line end
RECURSIVE SplitLines(_)
SplitLines(text) ==
    IF text = <<>> THEN <<>>
    ELSE LET P == Positions(text, "\n")
         IN  IF P = {} THEN <<text>>
             ELSE <<SubSeq(text, 1, Min(P))>>
                      \o SplitLines(SubSeq(text, Min(P) + 1, Len(text)))

\* textwrap.indent(text, prefix): prefix before every line that is not made
\* of whitespace only
RECURSIVE IndentLines(_, _)
IndentLines(lines, prefix) ==
    IF lines = <<>> THEN <<>>
    ELSE LET line == Head(lines)
             blank == \A i \in 1..Len(line) : line[i] \in Whitespace
         IN  (IF blank THEN line ELSE prefix \o line)
                 \o IndentLines(Tail(lines), prefix)

Indent(text, prefix) == IndentLines(SplitLines(text), prefix)

-----------------------------------------------------------------------------
(* The extension lists of get_single_file_description.                     *)

ImageExtensions == {<<"p","n","g">>, <<"j","p","g">>, <<"j","p","e","g">>}

\* mutant of DocumentExtensions: archives taken for documents
DocumentExtensionsWithZip ==
    {<<"p","d","f">>, <<"x","l","s">>, <<"x","l","s","x">>, <<"d","o","c","x">>,
     <<"d","o","c">>, <<"x","m","l">>, <<"z","i","p">>}

DocumentExtensions ==
    {<<"p","d","f">>, <<"x","l","s">>, <<"x","l","s","x">>, <<"d","o","c","x">>,
     <<"d","o","c">>, <<"x","m","l">>}

\* mutant of AudioExtensions: "m4a" forgotten
AudioExtensionsNoM4a == {<<"m","p","3">>, <<"w","a","v">>}

AudioExtensions == {<<"m","p","3">>, <<"m","4","a">>, <<"w","a","v">>}

-----------------------------------------------------------------------------
(* The captioners.  A captioner is an external collaborator: an invocation *)
(* either returns a caption or raises; ret is which, and an invocation is  *)
(* recorded with its arguments and with what it did.                       *)

Captions == {<<"c">>, <<"c","\n","\n","d">>}

CaptionReturns ==
    [raised : {FALSE}, text : Captions] \cup [raised : {TRUE}, text : {<<>>}]

\* mutant of ImagePrompt: the template without the question
ImagePromptNoQuestion(q) == ImagePromptHead \o ImagePromptTail

\* visual_inspection_tool(image_path=file_name, question=prompt)
ImagePrompt(q) == ImagePromptHead \o q \o ImagePromptTail

GetImageDescription(file_name, q, ret) ==
    [tool |-> "visual_inspection_tool", path |-> file_name, prompt |-> ImagePrompt(q),
     raised |-> ret.raised, text |-> ret.text]

\* document_inspection_tool.forward_initial_exam_mode(file_path=..., question=prompt)
DocumentPrompt(q) == DocumentPromptHead \o q \o DocumentPromptTail

GetDocumentDescription(path, q, ret) ==
    [tool |-> "forward_initial_exam_mode", path |-> path, prompt |-> DocumentPrompt(q),
     raised |-> ret.raised, text |-> ret.text]

-----------------------------------------------------------------------------
(* get_single_file_description(file_path, question, ...) on the filesystem *)
(* whose regular files are fs and directories ds; ret is what the captioner *)
(* does when it is invoked.  The value is the effect of the whole call:    *)
(* the branch taken, the captioner invocations and existence probes made,  *)
(* whether the call raised, and the string returned.                       *)

UpperCase ==
    <<"A","B","C","D","E","F","G","H","I","J","K","L","M",
      "N","O","P","Q","R","S","T","U","V","W","X","Y","Z">>

LowerCase ==
    <<"a","b","c","d","e","f","g","h","i","j","k","l","m",
      "n","o","p","q","r","s","t","u","v","w","x","y","z">>

\* str.lower(), which the source never applies: used by the mutant below and
\* by the statements about letter case
Lower(s) ==
    [i \in 1..Len(s) |->
        IF \E k \in 1..Len(UpperCase) : UpperCase[k] = s[i]
        THEN LowerCase[CHOOSE k \in 1..Len(UpperCase) : UpperCase[k] = s[i]]
        ELSE s[i]]

\* mutant of FileExtension: the extension lower-cased before it is matched
FileExtensionLowered(path) == Lower(SplitLast(path))

FileExtension(path) == SplitLast(path)

ImagePath(path) == SplitFirst(path) \o PngSuffix

ClassOfExtension(ext) ==
    IF ext \in ImageExtensions THEN "image"
    ELSE IF ext \in DocumentExtensions THEN "document"
    ELSE IF ext \in AudioExtensions THEN "audio"
    ELSE "other"

\* os.path.exists(p)
PathExists(p, fs, ds) == p \in fs \/ p \in ds

\* mutant of DescribeImage: a captioner that raises is caught and the caption
\* left empty
DescribeImageSwallowing(path, q, ret) ==
    [class  |-> "image",
     calls  |-> <<GetImageDescription(path, q, ret)>>,
     probes |-> <<>>,
     raised |-> FALSE,
     value  |-> ImageHeader \o path \o ImageCaptionLine \o ret.text]

DescribeImage(path, q, ret) ==
    [class  |-> "image",
     calls  |-> <<GetImageDescription(path, q, ret)>>,
     probes |-> <<>>,
     raised |-> ret.raised,
     value  |-> IF ret.raised THEN <<>>
                ELSE ImageHeader \o path \o ImageCaptionLine \o ret.text]

\* mutant of DescribeDocument: when the image captioner raises on the sibling
\* PNG, the document captioner is tried on the document itself
DescribeDocumentWithFallback(path, q, fs, ds, ret) ==
    LET image_path == ImagePath(path)
        found      == PathExists(image_path, fs, ds)
        reported   == IF found THEN image_path ELSE path
        second     == [raised |-> FALSE, text |-> <<"c">>]
    IN  IF found /\ ret.raised
        THEN [class  |-> "document",
              calls  |-> <<GetImageDescription(image_path, q, ret),
                           GetDocumentDescription(path, q, second)>>,
              probes |-> <<image_path>>,
              raised |-> FALSE,
              value  |-> DocumentHeader \o path \o DocumentCaptionLine \o second.text]
        ELSE [class  |-> "document",
              calls  |-> IF found THEN <<GetImageDescription(image_path, q, ret)>>
                                  ELSE <<GetDocumentDescription(path, q, ret)>>,
              probes |-> <<image_path>>,
              raised |-> ret.raised,
              value  |-> IF ret.raised THEN <<>>
                         ELSE DocumentHeader \o reported \o DocumentCaptionLine
                                  \o ret.text]

DescribeDocument(path, q, fs, ds, ret) ==
    LET image_path == ImagePath(path)
        found      == PathExists(image_path, fs, ds)
        reported   == IF found THEN image_path ELSE path
    IN  [class  |-> "document",
         calls  |-> IF found THEN <<GetImageDescription(image_path, q, ret)>>
                             ELSE <<GetDocumentDescription(path, q, ret)>>,
         probes |-> <<image_path>>,
         raised |-> ret.raised,
         value  |-> IF ret.raised THEN <<>>
                    ELSE DocumentHeader \o reported \o DocumentCaptionLine \o ret.text]

DescribeAudio(path) ==
    [class |-> "audio", calls |-> <<>>, probes |-> <<>>, raised |-> FALSE,
     value |-> AudioHeader \o path]

\* mutant of DescribeOther: an extension of none of the lists is refused
DescribeOtherRaising(path) ==
    [class |-> "other", calls |-> <<>>, probes |-> <<>>, raised |-> TRUE,
     value |-> <<>>]

DescribeOther(path) ==
    [class |-> "other", calls |-> <<>>, probes |-> <<>>, raised |-> FALSE,
     value |-> OtherHeader \o path]

GetSingleFileDescription(path, q, fs, ds, ret) ==
    LET c == ClassOfExtension(FileExtension(path))
    IN  IF c = "image" THEN DescribeImage(path, q, ret)
        ELSE IF c = "document" THEN DescribeDocument(path, q, fs, ds, ret)
        ELSE IF c = "audio" THEN DescribeAudio(path)
        ELSE DescribeOther(path)

-----------------------------------------------------------------------------
(* Inputs of the File Describer.                                           *)

\* directory parts of a path: none, one whose name holds a ".", and "./d/"
DirParts == {<<>>, <<"v","1",".","0","/">>, <<".","/","d","/">>}

\* file names without their extension, one of them with a "." of its own
Stems == {<<"a">>, <<"a",".","b">>}

\* extensions outside the three lists, three of them an upper-case spelling
OtherExtensions ==
    {<<"c","s","v">>, <<"z","i","p">>, <<"P","N","G">>, <<"P","D","F">>, <<"W","a","v">>}

\* file names with no "." at all
BareNames == {<<"p","n","g">>, <<"p","d","f">>, <<"w","a","v">>,
              <<"R","E","A","D","M","E">>}

\* the extensions of the three lists
ListedExtensions ==
    {<<"p","n","g">>, <<"j","p","g">>, <<"j","p","e","g">>,
     <<"p","d","f">>, <<"x","l","s">>, <<"x","l","s","x">>, <<"d","o","c","x">>,
     <<"d","o","c">>, <<"x","m","l">>,
     <<"m","p","3">>, <<"m","4","a">>, <<"w","a","v">>}

Extensions == ListedExtensions \cup OtherExtensions

Paths ==
    {d \o s \o <<Dot>> \o e : d \in DirParts, s \in Stems, e \in Extensions}
        \cup {d \o n : d \in DirParts, n \in BareNames}

Questions == {<<"Q">>, <<"W","h","y","?">>}

\* the .png files that may lie next to a document of Paths, or where the
\* describer looks for one
SiblingCandidates ==
    {d \o s \o PngSuffix : d \in DirParts, s \in Stems}
        \cup {ImagePath(p) : p \in Paths}

\* how many of them exist
MaxSiblings == 2

-----------------------------------------------------------------------------
\* no call of get_zip_description is under way
ZipIdle ==
    /\ folder_path = <<>>
    /\ stack = <<>>
    /\ pending = <<>>
    /\ root = <<>>
    /\ prompt_use_files = <<>>
    /\ mkdirs = <<>>
    /\ unpacks = <<>>
    /\ scans = <<>>
    /\ fragments = <<>>

\* before the first call
NoCall ==
    [op |-> "none", file_path |-> <<>>, question |-> <<>>, outcome |-> "none",
     result |-> <<>>, calls |-> <<>>, scans |-> <<>>, folder_path |-> <<>>]

\* what the caller keeps of a call that has ended
LastCall ==
    [op |-> op, file_path |-> file_path, question |-> question, outcome |-> outcome,
     result |-> result, calls |-> calls, scans |-> scans, folder_path |-> folder_path]

(* The File Describer as a state machine: the filesystem is chosen once,   *)
(* then get_single_file_description is called on it again and again.       *)

Init ==
    /\ files \in {F \in SUBSET SiblingCandidates : Cardinality(F) <= MaxSiblings}
    /\ dirs = {}
    /\ pc = "idle"
    /\ op = "none"
    /\ file_path = <<>>
    /\ question = <<>>
    /\ calls = <<>>
    /\ probes = <<>>
    /\ class = "none"
    /\ outcome = "none"
    /\ result = <<>>
    /\ ZipIdle
    /\ prev = NoCall
    /\ runs = 0

\* one call of get_single_file_description, from entry to return or raise
DescribeFile ==
    /\ pc = "idle"
    /\ \E p \in Paths, q \in Questions, ret \in CaptionReturns :
          LET d == GetSingleFileDescription(p, q, files, dirs, ret)
          IN  /\ op' = "single"
              /\ file_path' = p
              /\ question' = q
              /\ calls' = d.calls
              /\ probes' = d.probes
              /\ class' = d.class
              /\ outcome' = IF d.raised THEN "CaptionBackendFailure" ELSE "ok"
              /\ result' = d.value
    /\ pc' = "done"
    /\ UNCHANGED <<files, dirs, zipVars>>

\* the caller takes the result (or the error) and is ready for its next call
Continue ==
    /\ pc = "done"
    /\ pc' = "idle"
    /\ op' = "none"
    /\ file_path' = <<>>
    /\ question' = <<>>
    /\ calls' = <<>>
    /\ probes' = <<>>
    /\ class' = "none"
    /\ outcome' = "none"
    /\ result' = <<>>
    /\ folder_path' = <<>>
    /\ stack' = <<>>
    /\ pending' = <<>>
    /\ root' = <<>>
    /\ prompt_use_files' = <<>>
    /\ mkdirs' = <<>>
    /\ unpacks' = <<>>
    /\ scans' = <<>>
    /\ fragments' = <<>>
    /\ prev' = IF op = "zip" THEN LastCall ELSE prev
    /\ UNCHANGED <<files, dirs, runs>>

Next == DescribeFile \/ Continue

Spec == Init /\ [][Next]_vars

-----------------------------------------------------------------------------
(* The filesystem primitives get_zip_description uses.                     *)

\* os.path.join(a, b) for a relative b
Join(a, b) == IF a = <<>> \/ a[Len(a)] = Sep THEN a \o b ELSE a \o <<Sep>> \o b

\* the directory a path lies in (empty for a path without "/")
Parent(p) ==
    LET P == Positions(p, Sep)
    IN  IF P = {} THEN <<>> ELSE SubSeq(p, 1, Max(P) - 1)

\* the directories above p, nearest last
Ancestors(p) == {SubSeq(p, 1, i - 1) : i \in Positions(p, Sep)} \ {<<>>}

\* mutant of MakedirsRaises: os.makedirs(folder) without exist_ok=True
MakedirsRaisesIfPresent(folder, fs, ds) ==
    \/ \E a \in Ancestors(folder) \cup {folder} : a \in fs
    \/ folder \in ds

\* os.makedirs(folder, exist_ok=True) raises when folder, or a directory
\* above it, is there as a regular file
MakedirsRaises(folder, fs, ds) == \E a \in Ancestors(folder) \cup {folder} : a \in fs

\* the directories there are after os.makedirs(folder, exist_ok=True)
Makedirs(folder, ds) == ds \cup Ancestors(folder) \cup {folder}

\* the sequences that list every element of S exactly once
Orders(S) ==
    {s \in [1..Cardinality(S) -> S] : \A i, j \in 1..Cardinality(S) : s[i] = s[j] => i = j}

\* the names of the regular files, and of the directories, a directory holds
FileNamesIn(d, fs) == {SubSeq(f, Len(d) + 2, Len(f)) : f \in {g \in fs : Parent(g) = d}}

DirNamesIn(d, ds) == {SubSeq(f, Len(d) + 2, Len(f)) : f \in {g \in ds : Parent(g) = d}}

\* for file in files: os.path.join(root, file), for the names of a listing
RECURSIVE JoinAll(_, _)
JoinAll(r, names) ==
    IF names = <<>> THEN <<>> ELSE <<Join(r, Head(names))>> \o JoinAll(r, Tail(names))

-----------------------------------------------------------------------------
(* The archives of the model: what shutil.unpack_archive finds in them.    *)

DataZip == <<"d","a","t","a",".","z","i","p">>

BZip == <<"b",".","z","i","p">>

BadZip == <<"b","a","d",".","z","i","p">>

\* an archive with no member
EmptyZip == <<"e",".","z","i","p">>

ArchivePaths == {DataZip, BZip, BadZip, EmptyZip}

\* archives whose paths hold ".zip" more than once, or lie in the
\* destination of another
AZip == <<"a",".","z","i","p">>

AZipZip == <<"a",".","z","i","p",".","z","i","p">>

ABZip == <<"a","/","b",".","z","i","p">>

OldXZip == <<"o",".","z","i","p",".","d","/","x",".","z","i","p">>

SharedArchives == {AZip, AZipZip, ABZip, OldXZip}

\* the directories those archives lie in
SharedParents == {<<"a">>, <<"o",".","z","i","p",".","d">>}

KnownArchives == ArchivePaths \cup SharedArchives

\* the archives that are no zip file (zipfile.is_zipfile is false)
Corrupt == {BadZip}

\* the member files of an archive, by their names in the archive
Members(archive) ==
    IF archive = DataZip
    THEN {<<"a",".","p","n","g">>, <<"n","o","t","e","s",".","t","x","t">>}
    ELSE IF archive = BZip
    THEN {<<"r",".","p","d","f">>, <<"r",".","p","n","g">>,
          <<"s","/","i","n",".","z","i","p">>, <<"s","/","m",".","d","o","c">>}
    ELSE IF archive = AZip THEN {<<"x",".","t","x","t">>}
    ELSE IF archive = AZipZip THEN {<<"y",".","p","n","g">>}
    ELSE IF archive = ABZip THEN {<<"z",".","t","x","t">>}
    ELSE IF archive = OldXZip THEN {<<"w",".","t","x","t">>}
    ELSE {}

ZipQuestions == {<<"Q">>, <<"W","h","y","?">>}

\* how many calls of get_zip_description a behaviour makes
MaxRuns == 2

\* mutant of UnpackRaises: the failure of the unpack primitive is swallowed
UnpackNeverRaises(archive) == FALSE

\* shutil.unpack_archive(archive, folder) raises shutil.ReadError
UnpackRaises(archive) == archive \in Corrupt

\* the regular files there are after shutil.unpack_archive(archive, folder)
UnpackFiles(archive, folder, fs) == fs \cup {Join(folder, m) : m \in Members(archive)}

\* the directories there are after it
UnpackDirs(archive, folder, ds) ==
    ds \cup UNION {Ancestors(Join(folder, m)) : m \in Members(archive)}

\* folder_path = file_path.replace(".zip", "")
FolderPath(path) == Replace(path, ZipSuffix, <<>>)

\* mutant of AppendFragment: the fragment appended as it is, not indented
AppendFragmentUnindented(acc, fragment) == acc \o <<"\n">> \o fragment

\* mutant of AppendFragment: the fragment put before what was accumulated
PrependFragment(acc, fragment) == <<"\n">> \o Indent(fragment, IndentPrefix) \o acc

\* prompt_use_files += "\n" + textwrap.indent(fragment, prefix="    ")
AppendFragment(acc, fragment) == acc \o <<"\n">> \o Indent(fragment, IndentPrefix)

-----------------------------------------------------------------------------
(* get_zip_description as a state machine, one step per statement that     *)
(* touches the filesystem or a captioner.                                  *)

InitZip ==
    /\ files = ArchivePaths
    /\ dirs = {}
    /\ pc = "idle"
    /\ op = "none"
    /\ file_path = <<>>
    /\ question = <<>>
    /\ calls = <<>>
    /\ probes = <<>>
    /\ class = "none"
    /\ outcome = "none"
    /\ result = <<>>
    /\ ZipIdle
    /\ prev = NoCall
    /\ runs = 0

\* entry: folder_path is computed and os.makedirs(folder_path, exist_ok=True) runs
CallZip ==
    /\ pc = "idle"
    /\ runs < MaxRuns
    /\ \E p \in files \cap KnownArchives, q \in ZipQuestions :
          /\ op' = "zip"
          /\ file_path' = p
          /\ question' = q
          /\ folder_path' = FolderPath(p)
          /\ mkdirs' = <<FolderPath(p)>>
          /\ IF MakedirsRaises(FolderPath(p), files, dirs)
             THEN /\ pc' = "done"
                  /\ outcome' = "OSError"
                  /\ dirs' = dirs
             ELSE /\ pc' = "unpack"
                  /\ outcome' = "running"
                  /\ dirs' = Makedirs(FolderPath(p), dirs)
    /\ runs' = runs + 1
    /\ calls' = <<>>
    /\ probes' = <<>>
    /\ class' = "none"
    /\ result' = <<>>
    /\ UNCHANGED <<files, stack, pending, root, prompt_use_files, unpacks, scans,
                   fragments, prev>>

\* shutil.unpack_archive(file_path, folder_path), then prompt_use_files = ""
\* and os.walk(folder_path) is set up
Unpack ==
    /\ pc = "unpack"
    /\ unpacks' = Append(unpacks, [archive |-> file_path, folder |-> folder_path])
    /\ IF UnpackRaises(file_path)
       THEN /\ pc' = "done"
            /\ outcome' = "ExtractionFailure"
            /\ UNCHANGED <<files, dirs, stack>>
       ELSE /\ pc' = "walk"
            /\ outcome' = outcome
            /\ files' = UnpackFiles(file_path, folder_path, files)
            /\ dirs' = UnpackDirs(file_path, folder_path, dirs)
            /\ stack' = <<folder_path>>
    /\ UNCHANGED <<op, file_path, question, calls, probes, class, result, folder_path,
                   pending, root, prompt_use_files, mkdirs, scans, fragments, prev, runs>>

\* os.walk lists the next directory: its file names and its directory names,
\* each in the order the filesystem happens to give them
Scan ==
    /\ pc = "walk"
    /\ pending = <<>>
    /\ stack # <<>>
    /\ LET top == Head(stack)
       IN  \E fo \in Orders(FileNamesIn(top, files)), do \in Orders(DirNamesIn(top, dirs)) :
              /\ root' = top
              /\ pending' = fo
              /\ stack' = JoinAll(top, do) \o Tail(stack)
              /\ scans' = Append(scans, [root |-> top, dirs |-> do, files |-> fo])
    /\ UNCHANGED <<files, dirs, pc, op, file_path, question, calls, probes, class,
                   outcome, result, folder_path, prompt_use_files, mkdirs, unpacks,
                   fragments, prev, runs>>

\* one turn of "for file in files": the file is described and its fragment,
\* indented, is appended after a newline; a captioner that raises ends the call
DescribeNext ==
    /\ pc = "walk"
    /\ pending # <<>>
    /\ \E ret \in CaptionReturns :
          LET path == Join(root, Head(pending))
              d    == GetSingleFileDescription(path, question, files, dirs, ret)
          IN  /\ calls' = calls \o d.calls
              /\ probes' = probes \o d.probes
              /\ class' = d.class
              /\ IF d.raised
                 THEN /\ pc' = "done"
                      /\ outcome' = "CaptionBackendFailure"
                      /\ UNCHANGED <<prompt_use_files, fragments, pending>>
                 ELSE /\ pc' = pc
                      /\ outcome' = outcome
                      /\ prompt_use_files' = AppendFragment(prompt_use_files, d.value)
                      /\ fragments' = Append(fragments, [path |-> path, text |-> d.value])
                      /\ pending' = Tail(pending)
    /\ UNCHANGED <<files, dirs, op, file_path, question, result, folder_path, stack,
                   root, mkdirs, unpacks, scans, prev, runs>>

\* the walk is over: return prompt_use_files
ReturnZip ==
    /\ pc = "walk"
    /\ pending = <<>>
    /\ stack = <<>>
    /\ pc' = "done"
    /\ outcome' = "ok"
    /\ result' = prompt_use_files
    /\ UNCHANGED <<files, dirs, op, file_path, question, calls, probes, class,
                   folder_path, stack, pending, root, prompt_use_files, mkdirs, unpacks,
                   scans, fragments, prev, runs>>

NextZip == CallZip \/ Unpack \/ Scan \/ DescribeNext \/ ReturnZip \/ Continue

SpecZip == InitZip /\ [][NextZip]_vars

\* the same machine on a filesystem whose archives share destinations
InitShared ==
    /\ files = SharedArchives
    /\ dirs = SharedParents
    /\ pc = "idle"
    /\ op = "none"
    /\ file_path = <<>>
    /\ question = <<>>
    /\ calls = <<>>
    /\ probes = <<>>
    /\ class = "none"
    /\ outcome = "none"
    /\ result = <<>>
    /\ ZipIdle
    /\ prev = NoCall
    /\ runs = 0

SpecShared == InitShared /\ [][NextZip]_vars

-----------------------------------------------------------------------------
(* What the claims speak of: the file name of a path, its extension, the   *)
(* sibling .png of a document, the extension classes.                      *)

\* the last component of a path
FileName(p) ==
    LET P == Positions(p, Sep)
    IN  IF P = {} THEN p ELSE SubSeq(p, Max(P) + 1, Len(p))

\* the file name has an extension: a "." after which the name goes on
HasExtension(p) == Positions(FileName(p), Dot) # {}

\* the suffix after the final "." of a path that has an extension
Extension(p) == SplitLast(FileName(p))

\* the path without its extension and without the "." before it
BaseName(p) == SubSeq(p, 1, Len(p) - Len(Extension(p)) - 1)

\* <basename>.png: the path with its extension replaced by png
SiblingPng(p) == BaseName(p) \o <<".","p","n","g">>

ImageClass == {<<"p","n","g">>, <<"j","p","g">>, <<"j","p","e","g">>}

DocumentClass ==
    {<<"p","d","f">>, <<"x","l","s">>, <<"x","l","s","x">>, <<"d","o","c","x">>,
     <<"d","o","c">>, <<"x","m","l">>}

AudioClass == {<<"m","p","3">>, <<"m","4","a">>, <<"w","a","v">>}

Classify(ext) ==
    IF ext \in ImageClass THEN "image"
    ELSE IF ext \in DocumentClass THEN "document"
    ELSE IF ext \in AudioClass THEN "audio"
    ELSE "other"

\* s starts with t
StartsWith(s, t) == StartsAt(s, 1, t)

\* the kind of attachment a fragment's header line names
FragmentKind(f) ==
    IF StartsWith(f, <<" ","-"," ","A","t","t","a","c","h","e","d"," ","i","m","a","g","e",":"," ">>)
    THEN "image"
    ELSE IF StartsWith(f, <<" ","-"," ","A","t","t","a","c","h","e","d"," ","d","o","c","u","m","e","n","t",":"," ">>)
    THEN "document"
    ELSE IF StartsWith(f, <<" ","-"," ","A","t","t","a","c","h","e","d"," ","a","u","d","i","o",":"," ">>)
    THEN "audio"
    ELSE IF StartsWith(f, <<" ","-"," ","A","t","t","a","c","h","e","d"," ","f","i","l","e",":"," ">>)
    THEN "other"
    ELSE "none"

\* a call of get_single_file_description has ended
SingleDone == pc = "done" /\ op = "single"

HasDocumentExtension(p) == HasExtension(p) /\ Extension(p) \in DocumentClass

-----------------------------------------------------------------------------
\* C1: for a path with a document extension whose sibling <basename>.png
\* exists, the image captioner is invoked on exactly that PNG, the document
\* captioner is not invoked, and the fragment returned reports the PNG path:
\* " - Attached document: <PNG path>\n     -> File description: <caption>".
C1_SiblingPngIsCaptioned ==
    (SingleDone /\ HasDocumentExtension(file_path) /\ SiblingPng(file_path) \in files)
        => /\ Len(calls) = 1
           /\ calls[1].tool = "visual_inspection_tool"
           /\ calls[1].path = SiblingPng(file_path)
           /\ outcome = "ok" =>
                 result = <<" ","-"," ","A","t","t","a","c","h","e","d"," ","d","o","c","u","m","e","n","t",":"," ">>
                              \o SiblingPng(file_path)
                              \o <<"\n"," "," "," "," "," ","-",">"," ","F","i","l","e"," ","d","e","s","c","r","i","p","t","i","o","n",":"," ">>
                              \o calls[1].text

\* C2: for a path with a document extension whose sibling <basename>.png does
\* not exist, the document captioner's initial-exam entry point is invoked
\* exactly once with the original path and a prompt containing the question,
\* the image captioner is never invoked, and the fragment reports the
\* original path, whatever other .png files exist.
C2_NoSiblingDocumentCaptioned ==
    (SingleDone /\ HasDocumentExtension(file_path) /\ SiblingPng(file_path) \notin files)
        => /\ Len(calls) = 1
           /\ calls[1].tool = "forward_initial_exam_mode"
           /\ calls[1].path = file_path
           /\ Contains(calls[1].prompt, question)
           /\ outcome = "ok" =>
                 result = <<" ","-"," ","A","t","t","a","c","h","e","d"," ","d","o","c","u","m","e","n","t",":"," ">>
                              \o file_path
                              \o <<"\n"," "," "," "," "," ","-",">"," ","F","i","l","e"," ","d","e","s","c","r","i","p","t","i","o","n",":"," ">>
                              \o calls[1].text

\* C3: for a path with an image extension the branch taken is image, the
\* image captioner is invoked exactly once with that path and a prompt that
\* contains the question unchanged, the document captioner is not invoked,
\* the call returns exactly when the captioner does, and it returns
\* " - Attached image: <path>\n     -> Image description: <caption>" with the
\* caption the captioner returned.
C3_ImageCaptioned ==
    (SingleDone /\ HasExtension(file_path) /\ Extension(file_path) \in ImageClass)
        => /\ class = "image"
           /\ Len(calls) = 1
           /\ calls[1].tool = "visual_inspection_tool"
           /\ calls[1].path = file_path
           /\ Contains(calls[1].prompt, question)
           /\ probes = <<>>
           /\ (outcome = "ok") = ~calls[1].raised
           /\ outcome = "ok" =>
                 result = <<" ","-"," ","A","t","t","a","c","h","e","d"," ","i","m","a","g","e",":"," ">>
                              \o file_path
                              \o <<"\n"," "," "," "," "," ","-",">"," ","I","m","a","g","e"," ","d","e","s","c","r","i","p","t","i","o","n",":"," ">>
                              \o calls[1].text

C3_Witness ==
    /\ SingleDone
    /\ file_path = <<"v","1",".","0","/","a",".","b",".","j","p","e","g">>
    /\ question = <<"W","h","y","?">>
    /\ outcome = "ok"
    /\ Len(calls) = 1
    /\ calls[1].text = <<"c","\n","\n","d">>

\* C4: for a path that is no image, document or audio path (an unknown
\* extension, or a file name with no "." at all) no captioner is invoked and
\* the call returns exactly " - Attached file: <path>".
C4_OtherIsNeverCaptioned ==
    (/\ SingleDone
     /\ HasExtension(file_path) => Classify(Lower(Extension(file_path))) = "other")
        => /\ calls = <<>>
           /\ outcome = "ok"
           /\ result = <<" ","-"," ","A","t","t","a","c","h","e","d"," ","f","i","l","e",":"," ">>
                           \o file_path

\* C5: for a path with an audio extension no captioner is invoked, no
\* existence probe is made, and the call returns exactly the single line
\* " - Attached audio: <path>".
C5_AudioByPathOnly ==
    (SingleDone /\ HasExtension(file_path) /\ Extension(file_path) \in AudioClass)
        => /\ calls = <<>>
           /\ probes = <<>>
           /\ outcome = "ok"
           /\ result = <<" ","-"," ","A","t","t","a","c","h","e","d"," ","a","u","d","i","o",":"," ">>
                           \o file_path
           /\ Positions(result, "\n") = {}

C5_Witness ==
    /\ SingleDone
    /\ file_path = <<".","/","d","/","a",".","b",".","m","4","a">>
    /\ files # {}
    /\ outcome = "ok"

\* C6 as stated: the class of a path is found by matching the lower-case form
\* of its extension, so that paths differing only in the letter case of the
\* extension get the same class.
C6_ClassIgnoresCase ==
    (SingleDone /\ HasExtension(file_path))
        => class = Classify(Lower(Extension(file_path)))

\* C6 as amended: every call takes exactly one of the four branches, the
\* fragment returned is of that kind, and for a path with an extension the
\* branch is found by matching the extension verbatim, case preserved: an
\* extension with an upper-case letter is of class other.
C6_ClassMatchesVerbatim ==
    SingleDone
        => /\ class \in {"image", "document", "audio", "other"}
           /\ outcome = "ok" => FragmentKind(result) = class
           /\ HasExtension(file_path) =>
                 /\ class = Classify(Extension(file_path))
                 /\ Lower(Extension(file_path)) # Extension(file_path) => class = "other"

C6_Witness ==
    /\ SingleDone
    /\ file_path = <<"a",".","P","D","F">>
    /\ class = "other"
    /\ outcome = "ok"

-----------------------------------------------------------------------------
(* The Archive Expander.                                                   *)

\* a call of get_zip_description has ended
ZipDone == pc = "done" /\ op = "zip"

\* s ends with t
EndsWith(s, t) == Len(t) <= Len(s) /\ SubSeq(s, Len(s) - Len(t) + 1, Len(s)) = t

\* the captioners are deterministic over the invocations of log: the same
\* tool with the same arguments does the same
Deterministic(log) ==
    \A i, j \in 1..Len(log) :
        (log[i].tool = log[j].tool /\ log[i].path = log[j].path
            /\ log[i].prompt = log[j].prompt)
        => (log[i].raised = log[j].raised /\ log[i].text = log[j].text)

\* the walk order is fixed: a directory listed in both calls was listed in
\* the same order
SameWalkOrder(s1, s2) ==
    \A i \in 1..Len(s1), j \in 1..Len(s2) :
        s1[i].root = s2[j].root => (s1[i].files = s2[j].files /\ s1[i].dirs = s2[j].dirs)

\* the last two calls were get_zip_description on the same path with the
\* same question, and the first of them returned
SecondRun ==
    /\ ZipDone
    /\ prev.op = "zip"
    /\ prev.file_path = file_path
    /\ prev.question = question
    /\ prev.outcome = "ok"

\* C7: archive idempotence: when get_zip_description has returned for a .zip
\* path and is run again on the same path with the same question, with
\* deterministic captioners and a fixed walk order, the second run does not
\* fail and returns the same string, character for character.
C7_ZipIdempotent ==
    (SecondRun /\ Deterministic(prev.calls \o calls) /\ SameWalkOrder(prev.scans, scans))
        => /\ outcome = "ok"
           /\ result = prev.result

C7_Witness ==
    /\ SecondRun
    /\ file_path = <<"b",".","z","i","p">>
    /\ Deterministic(prev.calls \o calls)
    /\ SameWalkOrder(prev.scans, scans)
    /\ Len(prev.calls) = 3
    /\ Len(calls) = 3
    /\ Len(scans) = 2
    /\ result # <<>>
    /\ <<"b">> \in dirs

\* C8: archive failure propagation: on a corrupt .zip the call ends in the
\* error of the unpack primitive, distinct from a return and from every other
\* error; no captioner is invoked and no description, partial or not, is
\* returned.
C8_CorruptArchiveRaises ==
    (ZipDone /\ file_path \in Corrupt)
        => /\ outcome = "ExtractionFailure"
           /\ calls = <<>>
           /\ fragments = <<>>
           /\ prompt_use_files = <<>>
           /\ result = <<>>

C8_Witness ==
    /\ ZipDone
    /\ file_path = <<"b","a","d",".","z","i","p">>
    /\ Len(unpacks) = 1
    /\ outcome = "ExtractionFailure"
    /\ prev.outcome = "ok"
    /\ prev.result # <<>>

\* the characters of the paths, in code point order
CodePoints ==
    <<".","/","0","1","2","3","4","5","6","7","8","9",
      "A","B","C","D","E","F","G","H","I","J","K","L","M",
      "N","O","P","Q","R","S","T","U","V","W","X","Y","Z",
      "a","b","c","d","e","f","g","h","i","j","k","l","m",
      "n","o","p","q","r","s","t","u","v","w","x","y","z">>

CodePoint(c) == CHOOSE k \in 1..Len(CodePoints) : CodePoints[k] = c

\* s < t in the lexicographic order of strings
RECURSIVE LexLess(_, _)
LexLess(s, t) ==
    IF t = <<>> THEN FALSE
    ELSE IF s = <<>> THEN TRUE
    ELSE IF Head(s) = Head(t) THEN LexLess(Tail(s), Tail(t))
    ELSE CodePoint(Head(s)) < CodePoint(Head(t))

\* C9: the fragments of the output of get_zip_description are in
\* lexicographic order of their paths, whatever the order in which the
\* filesystem lists the entries of a directory (for data.zip: a.png before
\* notes.txt).
C9_LexicographicOrder ==
    (ZipDone /\ outcome = "ok")
        => \A i, j \in 1..Len(fragments) :
              i < j => LexLess(fragments[i].path, fragments[j].path)

\* C10: nested archives are never re-expanded: a file of the extracted tree
\* whose name ends in .zip yields exactly the generic fragment
\* " - Attached file: <path>", indented in the output; the unpack primitive
\* is invoked once per call, on the top-level archive only; and no directory
\* is made for the nested archive.
C10_NestedArchiveNotExpanded ==
    op = "zip"
        => /\ Len(unpacks) <= 1
           /\ \A i \in 1..Len(unpacks) :
                 unpacks[i] = [archive |-> file_path, folder |-> folder_path]
           /\ (pc = "walk" \/ (pc = "done" /\ outcome \in {"ok", "CaptionBackendFailure"}))
                 => Len(unpacks) = 1
           /\ mkdirs = <<folder_path>>
           /\ \A i \in 1..Len(fragments) :
                 EndsWith(fragments[i].path, <<".","z","i","p">>)
                    => /\ fragments[i].text =
                             <<" ","-"," ","A","t","t","a","c","h","e","d"," ","f","i","l","e",":"," ">>
                                 \o fragments[i].path
                       /\ Contains(prompt_use_files,
                                   <<"\n"," "," "," "," ">> \o fragments[i].text)
           /\ \A f \in files :
                 (EndsWith(f, <<".","z","i","p">>) /\ Parent(f) # <<>>)
                    => /\ SubSeq(f, 1, Len(f) - 4) \notin dirs
                       /\ SubSeq(f, 1, Len(f) - 4) \notin files

C10_Witness ==
    /\ ZipDone
    /\ outcome = "ok"
    /\ \E i \in 1..Len(fragments) :
          fragments[i].path = <<"b","/","s","/","i","n",".","z","i","p">>
    /\ Len(calls) = 3
    /\ Len(fragments) = 4

-----------------------------------------------------------------------------
\* C11: when the description of a file of the extracted tree fails (a
\* captioner raises), get_zip_description fails with that error at once: the
\* invocation that raised is the last one of the call, the file it was for
\* and the files after it in the walk get no fragment, and nothing is
\* returned, the fragments accumulated for the earlier files included.
C11_DescriptionFailureAborts ==
    op = "zip"
        => /\ \A i \in 1..Len(calls) :
                 calls[i].raised
                    => /\ i = Len(calls)
                       /\ pc = "done"
                       /\ outcome = "CaptionBackendFailure"
           /\ outcome = "CaptionBackendFailure"
                 => /\ pc = "done"
                    /\ calls # <<>>
                    /\ calls[Len(calls)].raised
                    /\ result = <<>>
                    /\ pending # <<>>
                    /\ \A i \in 1..Len(fragments) :
                          fragments[i].path # Join(root, Head(pending))

C11_Witness ==
    /\ ZipDone
    /\ outcome = "CaptionBackendFailure"
    /\ Len(calls) = 3
    /\ Len(fragments) >= 2
    /\ prompt_use_files # <<>>
    /\ Len(pending) >= 2

-----------------------------------------------------------------------------
\* how many times t occurs in s
Occurrences(s, t) == Cardinality({i \in 1..Len(s) : StartsAt(s, i, t)})

\* C12: a call of get_single_file_description leaves the filesystem as it
\* found it (the same regular files, the same directories), probes for the
\* existence of at most one path, hands the question unchanged to the
\* captioner it invokes, and, when no captioner fails, returns exactly one
\* fragment: it never raises of its own, whatever the extension.
C12_SingleFileFrame ==
    [][(pc = "idle" /\ op' = "single")
          => /\ files' = files
             /\ dirs' = dirs
             /\ Len(probes') <= 1
             /\ \A i \in 1..Len(calls') : Contains(calls'[i].prompt, question')
             /\ (\A i \in 1..Len(calls') : ~calls'[i].raised)
                   => /\ outcome' = "ok"
                      /\ FragmentKind(result') # "none"
                      /\ Occurrences(result',
                            <<" ","-"," ","A","t","t","a","c","h","e","d"," ">>) = 1]_vars

C12_Witness ==
    /\ SingleDone
    /\ file_path = <<"v","1",".","0","/","a",".","b",".","d","o","c","x">>
    /\ Len(probes) = 1
    /\ files # {}
    /\ outcome = "ok"
    /\ Len(calls) = 1

-----------------------------------------------------------------------------
\* the files the previous call extracted
ExtractedBefore == {Join(prev.folder_path, m) : m \in Members(prev.file_path)}

\* C13: two distinct archive paths never share an extraction target: the
\* destination directory of the one differs from that of the other, neither
\* lies above the other, and the files walked and described for the one hold
\* no file extracted from the other.
C13_DisjointDestinations ==
    (op = "zip" /\ prev.op = "zip" /\ prev.file_path # file_path)
        => /\ folder_path # prev.folder_path
           /\ prev.folder_path \notin Ancestors(folder_path)
           /\ folder_path \notin Ancestors(prev.folder_path)
           /\ \A i \in 1..Len(fragments) : fragments[i].path \notin ExtractedBefore

-----------------------------------------------------------------------------
\* the paths described by the call, in a set
DescribedPaths == {fragments[i].path : i \in 1..Len(fragments)}

\* C15: the files described by get_zip_description are exactly the files the
\* archive contains, whatever was done on the filesystem before: one fragment
\* for each file of the archive, none for any other file.
C15_ExactlyTheArchive ==
    (ZipDone /\ outcome = "ok")
        => /\ DescribedPaths = {Join(folder_path, m) : m \in Members(file_path)}
           /\ Len(fragments) = Cardinality(Members(file_path))

-----------------------------------------------------------------------------
\* C16: the destination directory is the archive path with only its archive
\* suffix stripped: for a path ending in ".zip" it is the path without its
\* last four characters, any other ".zip" in the path left in place; it
\* differs from the archive path; and it is a directory once os.makedirs has
\* run, which does not fail when the directory is there already.
C16_OnlyTheSuffixStripped ==
    (op = "zip" /\ EndsWith(file_path, <<".","z","i","p">>))
        => /\ folder_path = SubSeq(file_path, 1, Len(file_path) - 4)
           /\ folder_path # file_path
           /\ outcome # "OSError"
           /\ folder_path \in dirs

-----------------------------------------------------------------------------
\* the line of text that begins at position i holds a character that is no
\* white space
LineHasText(text, i) ==
    LET P   == {k \in i..Len(text) : text[k] = "\n"}
        end == IF P = {} THEN Len(text) ELSE Min(P)
    IN  \E k \in i..end : text[k] \notin {" ", "\t", "\n"}

\* the positions of text at which a line begins
LineStarts(text) == {i \in 1..Len(text) : i = 1 \/ text[i - 1] = "\n"}

\* text from position i on, with four spaces before each of its lines (a
\* line of white space only stays as it is)
RECURSIVE IndentedBy4(_, _)
IndentedBy4(text, i) ==
    IF i > Len(text) THEN <<>>
    ELSE LET next == {k \in LineStarts(text) : k > i}
             end  == IF next = {} THEN Len(text) ELSE Min(next) - 1
         IN  (IF LineHasText(text, i) THEN <<" "," "," "," ">> ELSE <<>>)
                 \o SubSeq(text, i, end) \o IndentedBy4(text, end + 1)

\* a newline and the indented fragment, for each fragment in turn
RECURSIVE Concatenation(_)
Concatenation(fs) ==
    IF fs = <<>> THEN <<>>
    ELSE <<"\n">> \o IndentedBy4(Head(fs).text, 1) \o Concatenation(Tail(fs))

\* the regular files below a directory, at any depth
RegularFilesUnder(d) == {f \in files : d \in Ancestors(f)}

\* C14: the string get_zip_description builds, and returns, is exactly the
\* concatenation, over the files described, of a newline followed by the
\* file's fragment indented by 4 spaces; when it returns, the File Describer
\* has been invoked exactly once for every regular file of the destination
\* tree, at any depth, and never for a directory, and the result is empty
\* exactly when the tree holds no regular file.
C14_OutputIsTheConcatenation ==
    ZipDone
        => /\ prompt_use_files = Concatenation(fragments)
           /\ \A i \in 1..Len(fragments) : FragmentKind(fragments[i].text) # "none"
           /\ outcome = "ok"
                 => /\ result = prompt_use_files
                    /\ DescribedPaths = RegularFilesUnder(folder_path)
                    /\ Len(fragments) = Cardinality(RegularFilesUnder(folder_path))
                    /\ DescribedPaths \cap dirs = {}
                    /\ (result = <<>>) = (RegularFilesUnder(folder_path) = {})

C14_Witness ==
    /\ ZipDone
    /\ outcome = "ok"
    /\ file_path = <<"b",".","z","i","p">>
    /\ Len(fragments) = 4
    /\ calls[1].text = <<"c","\n","\n","d">>
    /\ prev.op = "zip"
    /\ prev.outcome = "ok"
    /\ prev.result = <<>>

-----------------------------------------------------------------------------
\* the last element of a non-empty sequence
Last(s) == s[Len(s)]

\* the fragment that reports a captioner invocation: the header of either
\* kind, the path the captioner was given, the caption it returned
ReportsCall(text, call) ==
    \/ text = <<" ","-"," ","A","t","t","a","c","h","e","d"," ","i","m","a","g","e",":"," ">>
                 \o call.path
                 \o <<"\n"," "," "," "," "," ","-",">"," ","I","m","a","g","e"," ","d","e","s","c","r","i","p","t","i","o","n",":"," ">>
                 \o call.text
    \/ text = <<" ","-"," ","A","t","t","a","c","h","e","d"," ","d","o","c","u","m","e","n","t",":"," ">>
                 \o call.path
                 \o <<"\n"," "," "," "," "," ","-",">"," ","F","i","l","e"," ","d","e","s","c","r","i","p","t","i","o","n",":"," ">>
                 \o call.text

\* C17: within a call of get_zip_description the steps are in order: the
\* destination directory is there before the unpack primitive runs; the
\* unpacking is over before a captioner is invoked; the files are taken one
\* at a time, a step invoking at most one captioner and appending the
\* fragment of that invocation at the end of the output before the next
\* invocation begins, so that the invocations and the fragments of the output
\* are in the same order.
C17_StepsInOrder ==
    [][(op = "zip" /\ op' = "zip")
          => /\ unpacks' # unpacks
                   => /\ mkdirs = <<folder_path>>
                      /\ folder_path \in dirs
                      /\ calls = <<>>
                      /\ fragments = <<>>
             /\ calls' # calls
                   => /\ Len(unpacks) = 1
                      /\ pc = "walk"
                      /\ Len(calls') = Len(calls) + 1
                      /\ SubSeq(calls', 1, Len(calls)) = calls
                      /\ \A i \in 1..Len(calls) : ~calls[i].raised
                      /\ ~Last(calls').raised
                            => /\ Len(fragments') = Len(fragments) + 1
                               /\ ReportsCall(Last(fragments').text, Last(calls'))
             /\ fragments' # fragments
                   => /\ Len(fragments') = Len(fragments) + 1
                      /\ SubSeq(fragments', 1, Len(fragments)) = fragments
                      /\ prompt_use_files' =
                            prompt_use_files \o <<"\n">>
                                \o IndentedBy4(Last(fragments').text, 1)
             /\ prompt_use_files' # prompt_use_files => fragments' # fragments]_vars

C17_Witness ==
    /\ ZipDone
    /\ outcome = "ok"
    /\ file_path = <<"b",".","z","i","p">>
    /\ Len(calls) = 3
    /\ Len(fragments) = 4
    /\ fragments[3].path = <<"b","/","s","/","i","n",".","z","i","p">>
    /\ calls[3].tool = "forward_initial_exam_mode"
    /\ calls[1].text # calls[2].text

-----------------------------------------------------------------------------
\* C18: no retries and no local recovery: a call of
\* get_single_file_description invokes a captioner at most once, exactly once
\* on the image and the document branch and never on the audio and the other
\* branch; when that invocation fails the call fails with it, no second
\* captioner is invoked (the document captioner is not tried after the image
\* captioner failed on a sibling PNG) and no fragment is returned; the call
\* fails in no other way.
C18_NoRetryNoRecovery ==
    SingleDone
        => /\ Len(calls) <= 1
           /\ class \in {"image", "document"} => Len(calls) = 1
           /\ class \in {"audio", "other"} => Len(calls) = 0
           /\ \A i \in 1..Len(calls) :
                 calls[i].raised
                    => /\ outcome = "CaptionBackendFailure"
                       /\ result = <<>>
                       /\ \A j \in 1..Len(calls) : j <= i
           /\ outcome # "ok"
                 => /\ outcome = "CaptionBackendFailure"
                    /\ Len(calls) = 1
                    /\ calls[1].raised
                    /\ result = <<>>

C18_Witness ==
    /\ SingleDone
    /\ file_path = <<"a",".","p","d","f">>
    /\ <<"a",".","p","n","g">> \in files
    /\ Len(calls) = 1
    /\ calls[1].tool = "visual_inspection_tool"
    /\ calls[1].raised
    /\ outcome = "CaptionBackendFailure"

====
